---------------------------- MODULE Spec2Model ----------------------------
(*
  Gaming leaderboard: src/Backend/routes.py (submit_score, get_leaderboard,
  get_player_rank and the Redis helpers), src/Backend/app.py (unique index on
  leaderboard.user_id) and src/Backend/models.py (tables).

  Request handlers run concurrently (FastAPI runs sync handlers in a thread
  pool); each worker below executes one handler at a time, one database
  statement or one cache command per step.  The database is PostgreSQL at its
  default isolation level READ COMMITTED: a statement sees the rows committed
  when it starts plus the writes of its own transaction, and the row written
  by INSERT .. ON CONFLICT DO UPDATE stays locked until the transaction ends.
*)
EXTENDS Integers, Sequences, FiniteSets, Bags, TLC

\* ------------------------------------------------------------------ bounds
MaxSessions == 2     \* submissions begun that may still reach the ledger
MaxReads == 2        \* read requests begun
MaxTime == 5         \* the clock stops ticking here

\* ------------------------------------------------------- program constants
TTL == 5             \* cache_set(key, value, ttl=5)
TopLimit == 10       \* LIMIT 10

Workers == {1, 2}          \* concurrent request handlers
Users == {1, 2}            \* ids of the rows of users
UserIds == Users \cup {3}  \* ids a request may name; 3 has no row in users
Scores == {1, 2}           \* payload.score (schemas.py: gt=0)

VARIABLES
  game_sessions,   \* committed rows of game_sessions: a bag of (user_id, score)
  leaderboard,     \* committed rows of leaderboard: user_id -> row or NoRow
  lb_rows,         \* user_id -> number of committed leaderboard rows with that user_id
  rowlock,         \* user_id -> worker whose open transaction wrote the row, 0 if none
  redis,           \* the Redis keyspace: key -> entry or NoEntry
  redisUp,         \* the Redis backend is reachable
  redis_client,    \* the module global _redis_client is set
  now,             \* wall clock, in seconds
  pc,              \* worker -> position in its handler
  req,             \* worker -> the request it serves
  tx,              \* worker -> uncommitted writes and locals of submit_score
  resp,            \* worker -> response built or returned
  reads,           \* history: number of read requests begun
  acked,           \* history: user_id -> highest new_total_score returned by submit_score
  floor            \* history: worker -> acked when its read request started

vars == <<game_sessions, leaderboard, lb_rows, rowlock, redis, redisUp, redis_client,
          now, pc, req, tx, resp, reads, acked, floor>>

\* ------------------------------------------------------------------ tables
NoRow == [total_score |-> 0, rank |-> -1]
Row(total, rank) == [total_score |-> total, rank |-> rank]
HasRow(lb, u) == lb[u] # NoRow

\* SELECT total_score FROM leaderboard WHERE user_id = :uid (0 when no row)
TotalOf(lb, u) == lb[u].total_score

\* SELECT COUNT(*) + 1 FROM leaderboard WHERE total_score > :total
CountRankGE(lb, total) ==
  Cardinality({v \in Users : HasRow(lb, v) /\ lb[v].total_score >= total}) + 1
CountRank(lb, total) ==
  Cardinality({v \in Users : HasRow(lb, v) /\ lb[v].total_score > total}) + 1

\* a row of game_sessions (id, game_mode and timestamp play no part)
Session(u, s) == [user_id |-> u, score |-> s]

\* ------------------------------------------------------------------- cache
TopKey == <<"leaderboard:top10", 0>>
RankKey(u) == <<"rank", u>>
Keys == {TopKey} \cup {RankKey(u) : u \in UserIds}

NoEntry == [value |-> [none |-> TRUE], expires |-> 0]
None == [none |-> TRUE]

\* get_redis() returns a client: the one kept in _redis_client, or a new one
\* whose ping succeeded (and is then kept); None when the ping fails
get_redis == redis_client \/ redisUp

\* try: ... except Exception: return None / pass, in each cache helper: an error
\* of a Redis command (client set, backend down) never leaves the helper
Propagated(err) == err
Swallowed(err) == FALSE
CacheRaises == Swallowed(redis_client /\ ~redisUp)

\* json.dumps(value, default=str) writes the datetime updated_at as a string;
\* LeaderboardResponse(**cached) parses it back
Str(t) == [iso |-> t]
ParseDatetime(s) == s.iso
json_dumps(value) ==
  IF "updated_at" \in DOMAIN value THEN [value EXCEPT !.updated_at = Str(@)] ELSE value

\* r.get(key) through cache_get: None on a miss, when Redis is down, or on error
cache_get(key) ==
  IF get_redis /\ redisUp /\ redis[key] # NoEntry /\ now < redis[key].expires
  THEN redis[key].value ELSE None

\* r.setex(key, ttl, json.dumps(value)) through cache_set: a no-op when down
cache_set_keepttl(key, value) ==
  IF get_redis /\ redisUp
  THEN [redis EXCEPT ![key] =
          [value |-> json_dumps(value),
           expires |-> IF redis[key] # NoEntry THEN redis[key].expires ELSE now + TTL]]
  ELSE redis
cache_set(key, value) ==
  IF get_redis /\ redisUp
  THEN [redis EXCEPT ![key] = [value |-> json_dumps(value), expires |-> now + TTL]]
  ELSE redis

\* r.delete(*keys) through cache_invalidate: a no-op when down
cache_invalidate_top(keys) ==
  IF get_redis /\ redisUp
  THEN [k \in Keys |-> IF k = TopKey THEN NoEntry ELSE redis[k]]
  ELSE redis
cache_invalidate(keys) ==
  IF get_redis /\ redisUp
  THEN [k \in Keys |-> IF k \in keys THEN NoEntry ELSE redis[k]]
  ELSE redis

\* --------------------------------------------------------------- responses
NoReq == [op |-> "none", user_id |-> 0, score |-> 0]
NoTx == [total |-> 0, new_total |-> 0, new_rank |-> 0, inserted |-> FALSE]
NoResp == [status |-> 0]
NotFound == [status |-> 404]
InternalError == [status |-> 500]

SubmitResponse(u, total, rank) ==
  [status |-> 200, user_id |-> u, new_total_score |-> total, new_rank |-> rank]

\* response.model_dump() and the response models built from a cached dict
LeaderboardResponseNow(d) ==
  [status |-> 200, leaderboard |-> d.leaderboard, updated_at |-> now]
LeaderboardResponse(d) ==
  [status |-> 200, leaderboard |-> d.leaderboard, updated_at |-> ParseDatetime(d.updated_at)]
PlayerRankResponse(d) ==
  [status |-> 200, user_id |-> d.user_id, total_score |-> d.total_score, rank |-> d.rank]
TopDump(r) == [leaderboard |-> r.leaderboard, updated_at |-> r.updated_at]
RankDump(r) == [user_id |-> r.user_id, total_score |-> r.total_score, rank |-> r.rank]

ZeroAcked == [u \in UserIds |-> 0]

\* submissions that are past validation and not yet committed or rolled back
InTx(w) == pc[w] \in {"s_write", "s_commit"}
Begun == BagCardinality(game_sessions) + Cardinality({w \in Workers : InTx(w)})

Init ==
  /\ game_sessions = EmptyBag
  /\ leaderboard = [u \in Users |-> NoRow]
  /\ lb_rows = [u \in Users |-> 0]
  /\ rowlock = [u \in Users |-> 0]
  /\ redis = [k \in Keys |-> NoEntry]
  /\ redisUp = TRUE
  /\ redis_client = FALSE
  /\ now = 0
  /\ pc = [w \in Workers |-> "idle"]
  /\ req = [w \in Workers |-> NoReq]
  /\ tx = [w \in Workers |-> NoTx]
  /\ resp = [w \in Workers |-> NoResp]
  /\ reads = 0
  /\ acked = ZeroAcked
  /\ floor = [w \in Workers |-> ZeroAcked]

dbVars == <<game_sessions, leaderboard, lb_rows, rowlock>>
cacheVars == <<redis, redis_client>>
envVars == <<redisUp, now, reads>>

\* ------------------------------------------------------------ submit_score
\* step 1: SELECT id FROM users; no row -> HTTPException(404), re-raised as is
UserExistsAlways(u) == TRUE
UserExists(u) == u \in Users

SubmitValidate(w, u, s) ==
  /\ pc[w] = "idle"
  /\ Begun < MaxSessions
  /\ req' = [req EXCEPT ![w] = [op |-> "submit", user_id |-> u, score |-> s]]
  /\ IF UserExists(u)
     THEN /\ pc' = [pc EXCEPT ![w] = "s_write"]
          /\ resp' = resp
     ELSE /\ pc' = [pc EXCEPT ![w] = "ret"]
          /\ resp' = [resp EXCEPT ![w] = NotFound]
  /\ UNCHANGED <<dbVars, cacheVars, envVars, tx, acked, floor>>

\* steps 2-3: INSERT INTO game_sessions, pending in the transaction, and the
\* upsert.  The upsert waits while another open transaction holds the row of
\* this user (the unique index idx_lb_user_unique), then takes the row lock,
\* reads the latest committed row and adds the score (or inserts score, rank 0)
UpsertNoLock(w) == rowlock' = rowlock
UpsertTableLock(w) ==
  /\ \A v \in Users : rowlock[v] = 0
  /\ rowlock' = [rowlock EXCEPT ![req[w].user_id] = w]
Upsert(w) ==
  LET u == req[w].user_id IN
  /\ rowlock[u] = 0
  /\ rowlock' = [rowlock EXCEPT ![u] = w]

\* ON CONFLICT (user_id): the arbiter is the unique index idx_lb_user_unique;
\* with the row lock held, the upsert conflicts exactly when a committed row
\* of this user exists, and then updates it instead of inserting a new row
ConflictNever(w) == FALSE
Conflict(w) == HasRow(leaderboard, req[w].user_id)

\* total_score of the written row: :score on insert, total_score + :score on conflict
UpsertOverwrite(w) == req[w].score
UpsertedTotal(w) == TotalOf(leaderboard, req[w].user_id) + req[w].score

\* steps 4-5: new_total is the total of the transaction's own row; new_rank
\* counts the committed rows of the other users and the own row, whose rank is
\* then updated
SubmitWrite(w) ==
  LET u == req[w].user_id
      seen == [leaderboard EXCEPT ![u] = Row(UpsertedTotal(w), 0)]
  IN
  /\ pc[w] = "s_write"
  /\ Upsert(w)
  /\ tx' = [tx EXCEPT ![w] = [total |-> UpsertedTotal(w),
                              new_total |-> TotalOf(seen, u),
                              new_rank |-> CountRank(seen, TotalOf(seen, u)),
                              inserted |-> ~Conflict(w)]]
  /\ pc' = [pc EXCEPT ![w] = "s_commit"]
  /\ UNCHANGED <<game_sessions, leaderboard, lb_rows, cacheVars, envVars, req, resp, acked, floor>>

\* rank of the transaction's own row when it commits: the upsert writes 0 on
\* a new row and leaves the rank of an existing row, then
\* UPDATE leaderboard SET rank = :rank WHERE user_id = :uid overwrites it
PendingRankNoUpdate(w) ==
  IF tx[w].inserted THEN 0 ELSE leaderboard[req[w].user_id].rank
PendingRank(w) == tx[w].new_rank

\* db.commit(): the session row and the leaderboard row become visible together
Commit(w) ==
  LET u == req[w].user_id IN
  /\ game_sessions' = game_sessions (+) SetToBag({Session(u, req[w].score)})
  /\ leaderboard' = [leaderboard EXCEPT ![u] = Row(tx[w].total, PendingRank(w))]
  /\ lb_rows' = [lb_rows EXCEPT ![u] = IF tx[w].inserted THEN @ + 1 ELSE @]

SubmitCommit(w) ==
  /\ pc[w] = "s_commit"
  /\ Commit(w)
  /\ rowlock' = [rowlock EXCEPT ![req[w].user_id] = 0]
  /\ pc' = [pc EXCEPT ![w] = "s_inval"]
  /\ UNCHANGED <<cacheVars, envVars, req, tx, resp, acked, floor>>

\* cache_invalidate("leaderboard:top10", f"rank:{user_id}") and the return
SubmitInvalidate(w) ==
  LET u == req[w].user_id IN
  /\ pc[w] = "s_inval"
  /\ redis' = cache_invalidate({TopKey, RankKey(u)})
  /\ redis_client' = get_redis
  /\ resp' = [resp EXCEPT ![w] =
                IF CacheRaises THEN InternalError
                ELSE SubmitResponse(u, tx[w].new_total, tx[w].new_rank)]
  /\ tx' = [tx EXCEPT ![w] = NoTx]
  /\ pc' = [pc EXCEPT ![w] = "ret"]
  /\ UNCHANGED <<dbVars, envVars, req, acked, floor>>

\* except Exception: db.rollback(); HTTPException(500): a statement or the
\* commit raised; the pending writes are discarded and the row lock released
RollbackKeepsSession(w) ==
  /\ rowlock' = [u \in Users |-> IF rowlock[u] = w THEN 0 ELSE rowlock[u]]
  /\ game_sessions' = game_sessions (+) SetToBag({Session(req[w].user_id, req[w].score)})
  /\ UNCHANGED <<leaderboard, lb_rows>>
db_rollback(w) ==
  /\ rowlock' = [u \in Users |-> IF rowlock[u] = w THEN 0 ELSE rowlock[u]]
  /\ UNCHANGED <<game_sessions, leaderboard, lb_rows>>

SubmitFail(w) ==
  /\ InTx(w)
  /\ db_rollback(w)
  /\ resp' = [resp EXCEPT ![w] = InternalError]
  /\ tx' = [tx EXCEPT ![w] = NoTx]
  /\ pc' = [pc EXCEPT ![w] = "ret"]
  /\ UNCHANGED <<cacheVars, envVars, req, acked, floor>>

\* ---------------------------------------------------------- get_leaderboard
\* SELECT ... ORDER BY l.total_score DESC LIMIT 10: every order of the rows
\* that is non-increasing in total_score (the order of ties is not fixed), cut
\* to the first TopLimit rows
Min(a, b) == IF a < b THEN a ELSE b
RowUsers(lb) == {u \in Users : HasRow(lb, u)}
OrderByTotalDesc(lb, s) ==
  \A i \in 1..(Len(s) - 1) : lb[s[i]].total_score >= lb[s[i + 1]].total_score
Limit(s) == SubSeq(s, 1, Min(TopLimit, Len(s)))
TopRows(lb) ==
  LET n == Cardinality(RowUsers(lb)) IN
  { Limit(s) : s \in { q \in [1..n -> RowUsers(lb)] :
                         /\ \A i, j \in 1..n : i # j => q[i] # q[j]
                         /\ OrderByTotalDesc(lb, q) } }

\* LeaderboardEntry(rank=idx + 1, user_id, total_score) for idx, r in enumerate(rows)
EntriesStoredRank(lb, rows) ==
  [i \in 1..Len(rows) |->
     [rank |-> lb[rows[i]].rank, user_id |-> rows[i],
      total_score |-> lb[rows[i]].total_score]]
Entries(lb, rows) ==
  [i \in 1..Len(rows) |->
     [rank |-> i, user_id |-> rows[i], total_score |-> lb[rows[i]].total_score]]

BeginRead(w, op, u) ==
  /\ reads < MaxReads
  /\ reads' = reads + 1
  /\ UNCHANGED <<redisUp, now>>
  /\ req' = [req EXCEPT ![w] = [op |-> op, user_id |-> u, score |-> 0]]
  /\ floor' = [floor EXCEPT ![w] = acked]

\* cached = cache_get("leaderboard:top10"); if cached: return it
TopCacheGet(w) ==
  /\ pc[w] = "idle"
  /\ BeginRead(w, "top", 0)
  /\ redis_client' = get_redis
  /\ IF CacheRaises
     THEN resp' = [resp EXCEPT ![w] = InternalError] /\ pc' = [pc EXCEPT ![w] = "ret"]
     ELSE IF cache_get(TopKey) # None
     THEN /\ resp' = [resp EXCEPT ![w] = LeaderboardResponse(cache_get(TopKey))]
          /\ pc' = [pc EXCEPT ![w] = "ret"]
     ELSE resp' = resp /\ pc' = [pc EXCEPT ![w] = "t_query"]
  /\ UNCHANGED <<dbVars, redis, tx, acked>>

\* the query, the entries and the response stamped datetime.now()
TopQueryRerank(w) ==
  /\ pc[w] = "t_query"
  /\ \E rows \in TopRows(leaderboard) :
       /\ resp' = [resp EXCEPT ![w] = [status |-> 200,
                                       leaderboard |-> Entries(leaderboard, rows),
                                       updated_at |-> now]]
       /\ leaderboard' =
            [u \in Users |->
               IF \E i \in DOMAIN rows : rows[i] = u
               THEN Row(leaderboard[u].total_score, CHOOSE i \in DOMAIN rows : rows[i] = u)
               ELSE leaderboard[u]]
  /\ pc' = [pc EXCEPT ![w] = "t_set"]
  /\ UNCHANGED <<game_sessions, lb_rows, rowlock, cacheVars, envVars, req, tx, acked, floor>>
TopQuery(w) ==
  /\ pc[w] = "t_query"
  /\ \E rows \in TopRows(leaderboard) :
       resp' = [resp EXCEPT ![w] = [status |-> 200,
                                    leaderboard |-> Entries(leaderboard, rows),
                                    updated_at |-> now]]
  /\ pc' = [pc EXCEPT ![w] = "t_set"]
  /\ UNCHANGED <<dbVars, cacheVars, envVars, req, tx, acked, floor>>

\* cache_set("leaderboard:top10", response.model_dump()); return response
TopCacheSet(w) ==
  /\ pc[w] = "t_set"
  /\ redis' = cache_set(TopKey, TopDump(resp[w]))
  /\ redis_client' = get_redis
  /\ resp' = IF CacheRaises THEN [resp EXCEPT ![w] = InternalError] ELSE resp
  /\ pc' = [pc EXCEPT ![w] = "ret"]
  /\ UNCHANGED <<dbVars, envVars, req, tx, acked, floor>>

\* ---------------------------------------------------------- get_player_rank
\* cached = cache_get(f"rank:{user_id}"); if cached: return it
RankCacheGet(w, u) ==
  /\ pc[w] = "idle"
  /\ BeginRead(w, "rank", u)
  /\ redis_client' = get_redis
  /\ IF CacheRaises
     THEN resp' = [resp EXCEPT ![w] = InternalError] /\ pc' = [pc EXCEPT ![w] = "ret"]
     ELSE IF cache_get(RankKey(u)) # None
     THEN /\ resp' = [resp EXCEPT ![w] = PlayerRankResponse(cache_get(RankKey(u)))]
          /\ pc' = [pc EXCEPT ![w] = "ret"]
     ELSE resp' = resp /\ pc' = [pc EXCEPT ![w] = "r_query"]
  /\ UNCHANGED <<dbVars, redis, tx, acked>>

\* the row of the player with the rank computed by the subquery
\* (SELECT COUNT(*) + 1 FROM leaderboard WHERE total_score > l.total_score);
\* no row -> HTTPException(404) before any cache_set
RankRowStored(lb, u) ==
  [user_id |-> u, total_score |-> lb[u].total_score, rank |-> lb[u].rank]
RankRow(lb, u) ==
  [user_id |-> u, total_score |-> lb[u].total_score,
   rank |-> CountRank(lb, lb[u].total_score)]

\* if not row: raise HTTPException(404)
RankNotFoundCached(w) ==
  /\ resp' = [resp EXCEPT ![w] = NotFound]
  /\ pc' = [pc EXCEPT ![w] = "ret"]
  /\ redis' = cache_set(RankKey(req[w].user_id),
                        [user_id |-> req[w].user_id, total_score |-> 0, rank |-> 1])
  /\ redis_client' = get_redis
RankNotFound(w) ==
  /\ resp' = [resp EXCEPT ![w] = NotFound]
  /\ pc' = [pc EXCEPT ![w] = "ret"]
  /\ UNCHANGED cacheVars

RankQuery(w) ==
  LET u == req[w].user_id IN
  /\ pc[w] = "r_query"
  /\ IF u \in Users /\ HasRow(leaderboard, u)
     THEN /\ resp' = [resp EXCEPT ![w] = PlayerRankResponse(RankRow(leaderboard, u))]
          /\ pc' = [pc EXCEPT ![w] = "r_set"]
          /\ UNCHANGED cacheVars
     ELSE RankNotFound(w)
  /\ UNCHANGED <<dbVars, envVars, req, tx, acked, floor>>

\* cache_set(cache_key, response.model_dump()); return response
RankCacheSet(w) ==
  /\ pc[w] = "r_set"
  /\ redis' = cache_set(RankKey(req[w].user_id), RankDump(resp[w]))
  /\ redis_client' = get_redis
  /\ resp' = IF CacheRaises THEN [resp EXCEPT ![w] = InternalError] ELSE resp
  /\ pc' = [pc EXCEPT ![w] = "ret"]
  /\ UNCHANGED <<dbVars, envVars, req, tx, acked, floor>>

\* ------------------------------------------------------------------ return
\* the response leaves the handler; get_db's finally closes the session
Max(a, b) == IF a > b THEN a ELSE b
Return(w) ==
  /\ pc[w] = "ret"
  /\ acked' = IF req[w].op = "submit" /\ resp[w].status = 200
              THEN [acked EXCEPT ![req[w].user_id] = Max(@, resp[w].new_total_score)]
              ELSE acked
  /\ pc' = [pc EXCEPT ![w] = "idle"]
  /\ req' = [req EXCEPT ![w] = NoReq]
  /\ resp' = [resp EXCEPT ![w] = NoResp]
  /\ floor' = [floor EXCEPT ![w] = ZeroAcked]
  /\ UNCHANGED <<dbVars, cacheVars, envVars, tx>>

\* ------------------------------------------------------------- environment
\* a second passes; Redis drops the keys whose TTL has run out
Tick ==
  /\ now < MaxTime
  /\ now' = now + 1
  /\ redis' = [k \in Keys |->
                 IF redis[k] # NoEntry /\ redis[k].expires <= now + 1 THEN NoEntry ELSE redis[k]]
  /\ UNCHANGED <<dbVars, redis_client, redisUp, reads, pc, req, tx, resp, acked, floor>>

\* the TTL of a key runs out at a moment the handlers do not control
Expire(k) ==
  /\ redis[k] # NoEntry
  /\ redis' = [redis EXCEPT ![k] = NoEntry]
  /\ UNCHANGED <<dbVars, redis_client, envVars, pc, req, tx, resp, acked, floor>>

\* the Redis backend becomes unreachable, or reachable again (it keeps its keys)
RedisDown ==
  /\ redisUp
  /\ redisUp' = FALSE
  /\ UNCHANGED <<dbVars, cacheVars, now, reads, pc, req, tx, resp, acked, floor>>

RedisBack ==
  /\ ~redisUp
  /\ redisUp' = TRUE
  /\ UNCHANGED <<dbVars, cacheVars, now, reads, pc, req, tx, resp, acked, floor>>

\* -------------------------------------------------------- specifications
Requests ==
  \/ \E w \in Workers, u \in UserIds, s \in Scores : SubmitValidate(w, u, s)
  \/ \E w \in Workers : TopCacheGet(w)
  \/ \E w \in Workers, u \in UserIds : RankCacheGet(w, u)

Steps ==
  \/ \E w \in Workers : SubmitWrite(w)
  \/ \E w \in Workers : SubmitCommit(w)
  \/ \E w \in Workers : SubmitInvalidate(w)
  \/ \E w \in Workers : TopQuery(w)
  \/ \E w \in Workers : TopCacheSet(w)
  \/ \E w \in Workers : RankQuery(w)
  \/ \E w \in Workers : RankCacheSet(w)
  \/ \E w \in Workers : Return(w)

\* Redis reachable; requests arrive at any time and overlap freely; a database
\* statement may fail; a cached key may run out of its TTL at any moment
Next ==
  \/ Requests
  \/ Steps
  \/ \E w \in Workers : SubmitFail(w)
  \/ \E k \in Keys : Expire(k)

Spec == Init /\ [][Next]_vars

\* the same, with a submission accepted only while no other is in flight
NoSubmitInFlight == \A w \in Workers : req[w].op # "submit"

NextSeq ==
  \/ \E w \in Workers, u \in UserIds, s \in Scores :
       NoSubmitInFlight /\ SubmitValidate(w, u, s)
  \/ \E w \in Workers : TopCacheGet(w)
  \/ \E w \in Workers, u \in UserIds : RankCacheGet(w, u)
  \/ Steps
  \/ \E w \in Workers : SubmitFail(w)
  \/ \E k \in Keys : Expire(k)

SpecSeq == Init /\ [][NextSeq]_vars

\* the same, with one request at a time: a request is accepted only when
\* every handler has returned
AllIdle == \A w \in Workers : pc[w] = "idle"

NextSerial ==
  \/ AllIdle /\ Requests
  \/ Steps
  \/ \E w \in Workers : SubmitFail(w)
  \/ \E k \in Keys : Expire(k)

SpecSerial == Init /\ [][NextSerial]_vars

\* Redis unreachable from start to end (the client connected earlier or never),
\* the database healthy
InitNoCache ==
  /\ game_sessions = EmptyBag
  /\ leaderboard = [u \in Users |-> NoRow]
  /\ lb_rows = [u \in Users |-> 0]
  /\ rowlock = [u \in Users |-> 0]
  /\ redis = [k \in Keys |-> NoEntry]
  /\ redisUp = FALSE
  /\ redis_client \in BOOLEAN
  /\ now = 0
  /\ pc = [w \in Workers |-> "idle"]
  /\ req = [w \in Workers |-> NoReq]
  /\ tx = [w \in Workers |-> NoTx]
  /\ resp = [w \in Workers |-> NoResp]
  /\ reads = 0
  /\ acked = ZeroAcked
  /\ floor = [w \in Workers |-> ZeroAcked]

NextNoCache ==
  \/ Requests
  \/ Steps

SpecNoCache == InitNoCache /\ [][NextNoCache]_vars

\* Redis reachable and the clock running: reads overlap each other, a
\* submission runs alone, and seconds pass between any two steps while some
\* key is cached (with an empty cache the passing of time shows nowhere); Tick
\* drops a key when its TTL has run out
SomeKeyCached == \E k \in Keys : redis[k] # NoEntry

NextTime ==
  \/ \E w \in Workers, u \in UserIds, s \in Scores : AllIdle /\ SubmitValidate(w, u, s)
  \/ \E w \in Workers : NoSubmitInFlight /\ TopCacheGet(w)
  \/ \E w \in Workers, u \in UserIds : NoSubmitInFlight /\ RankCacheGet(w, u)
  \/ Steps
  \/ SomeKeyCached /\ Tick

SpecTime == Init /\ [][NextTime]_vars

\* one request at a time, with the Redis backend going down and coming back
\* between any two steps; it keeps its keys while it is unreachable
NextOutage ==
  \/ AllIdle /\ Requests
  \/ Steps
  \/ \E k \in Keys : Expire(k)
  \/ RedisDown
  \/ RedisBack

SpecOutage == Init /\ [][NextOutage]_vars

\* the steps of one handler: a thread of the pool that can take its next step
\* eventually takes it
Progress(w) ==
  \/ SubmitWrite(w)
  \/ SubmitCommit(w)
  \/ SubmitInvalidate(w)
  \/ TopQuery(w)
  \/ TopCacheSet(w)
  \/ RankQuery(w)
  \/ RankCacheSet(w)
  \/ Return(w)

FairSteps == \A w \in Workers : WF_vars(Progress(w))

\* a cached key eventually runs out of its TTL
FairExpiry == \A k \in Keys : WF_vars(Expire(k))

\* a submission waiting for a row lock that keeps being released eventually
\* gets it (PostgreSQL queues the waiters of a lock)
FairLocks == \A w \in Workers : SF_vars(SubmitWrite(w))

\* reads overlapping submissions (one read and one submission at a time), with
\* every handler making progress and every key expiring
NoReadInFlight == \A w \in Workers : req[w].op \notin {"top", "rank"}

NextFresh ==
  \/ \E w \in Workers, u \in UserIds, s \in Scores :
       NoSubmitInFlight /\ SubmitValidate(w, u, s)
  \/ \E w \in Workers : NoReadInFlight /\ TopCacheGet(w)
  \/ \E w \in Workers, u \in UserIds : NoReadInFlight /\ RankCacheGet(w, u)
  \/ Steps
  \/ \E k \in Keys : Expire(k)

SpecFresh == Init /\ [][NextFresh]_vars /\ FairSteps /\ FairExpiry

\* submissions only, overlapping freely, a statement or the commit may fail;
\* every handler makes progress and lock waiters are served
NextSubmit ==
  \/ \E w \in Workers, u \in UserIds, s \in Scores : SubmitValidate(w, u, s)
  \/ \E w \in Workers : SubmitWrite(w)
  \/ \E w \in Workers : SubmitCommit(w)
  \/ \E w \in Workers : SubmitInvalidate(w)
  \/ \E w \in Workers : SubmitFail(w)
  \/ \E w \in Workers : Return(w)

SpecLive == Init /\ [][NextSubmit]_vars /\ FairSteps /\ FairLocks

\* ------------------------------------------------------------------ claims
\* what a claim expects, written without the operators of the handlers
UserScoreSum(u) ==
  LET rows == {r \in BagToSet(game_sessions) : r.user_id = u}
      F[S \in SUBSET rows] ==
        IF S = {} THEN 0
        ELSE LET r == CHOOSE x \in S : TRUE
             IN r.score * CopiesIn(r, game_sessions) + F[S \ {r}]
  IN F[rows]
SessionsOf(u) ==
  LET rows == {r \in BagToSet(game_sessions) : r.user_id = u}
      F[S \in SUBSET rows] ==
        IF S = {} THEN 0
        ELSE LET r == CHOOSE x \in S : TRUE IN CopiesIn(r, game_sessions) + F[S \ {r}]
  IN F[rows]
Ahead(lb, total) ==
  Cardinality({v \in Users : lb[v] # NoRow /\ lb[v].total_score > total})
Returning(w, op) == pc[w] = "ret" /\ req[w].op = op
\* the submission of worker w is committed and its handler has not returned
Committed(w) ==
  \/ pc[w] = "s_inval"
  \/ Returning(w, "submit") /\ resp[w].status = 200
ReturnedTotal(w) ==
  IF pc[w] = "s_inval" THEN tx[w].new_total ELSE resp[w].new_total_score

\* C1: in every committed state each player's total_score equals the sum of
\* that player's game_sessions scores, and a player without a leaderboard row
\* has no game_sessions row.
C1_TotalIsLedgerSum ==
  \A u \in Users :
    /\ leaderboard[u].total_score = UserScoreSum(u)
    /\ leaderboard[u] = NoRow => SessionsOf(u) = 0
    /\ leaderboard[u] # NoRow => SessionsOf(u) > 0

\* two committed sessions of one player, submitted by overlapping requests
C1_Witness ==
  \E u \in Users :
    /\ CopiesIn([user_id |-> u, score |-> 1], game_sessions) = 1
    /\ CopiesIn([user_id |-> u, score |-> 2], game_sessions) = 1
    /\ leaderboard[u].total_score = 3
    /\ \A w \in Workers : Committed(w) /\ req[w].user_id = u

\* C2: when two submissions for the same player overlap and both have
\* committed, no increment is lost: their returned totals differ, the later
\* one contains the earlier one's total plus its own score, the committed total
\* is at least the later one, and when they are the player's only two
\* sessions the totals are exactly the first score and the sum of both.
C2_NoLostIncrement ==
  \A w1, w2 \in Workers :
    (w1 # w2 /\ Committed(w1) /\ Committed(w2) /\ req[w1].user_id = req[w2].user_id)
    => LET u == req[w1].user_id
           a == ReturnedTotal(w1)
           b == ReturnedTotal(w2)
       IN /\ a # b
          /\ a >= req[w1].score /\ b >= req[w2].score
          /\ a < b => /\ b >= a + req[w2].score
                      /\ leaderboard[u].total_score >= b
                      /\ SessionsOf(u) = 2
                         => /\ a = req[w1].score
                            /\ b = req[w1].score + req[w2].score
                            /\ leaderboard[u].total_score = b

\* the claim's example, scaled: 2 and 1 submitted concurrently from total 0 give 3
C2_Witness ==
  \E w1, w2 \in Workers :
    /\ w1 # w2 /\ Committed(w1) /\ Committed(w2)
    /\ req[w1].user_id = req[w2].user_id
    /\ req[w1].score = 2 /\ req[w2].score = 1
    /\ leaderboard[req[w1].user_id].total_score = 3

\* C3: a submission that fails after the player check reports the internal
\* error and leaves game_sessions and leaderboard as they are, holding no lock
\* and no pending write; and the two tables only ever change together, by one
\* session row and the matching increment of that player's total.
C3_NoPartialCommit ==
  [][ /\ \A w \in Workers :
           (req[w].op = "submit" /\ pc[w] \in {"s_write", "s_commit"}
              /\ pc'[w] = "ret" /\ resp'[w].status # 200)
           => /\ resp'[w] = [status |-> 500]
              /\ game_sessions' = game_sessions
              /\ leaderboard' = leaderboard
              /\ tx'[w] = NoTx
              /\ \A u \in Users : rowlock'[u] # w
      /\ (game_sessions' # game_sessions \/ leaderboard' # leaderboard)
         => \E w \in Workers :
              LET u == req[w].user_id
                  s == [user_id |-> u, score |-> req[w].score]
              IN /\ pc[w] = "s_commit" /\ pc'[w] = "s_inval"
                 /\ CopiesIn(s, game_sessions') = CopiesIn(s, game_sessions) + 1
                 /\ BagCardinality(game_sessions') = BagCardinality(game_sessions) + 1
                 /\ leaderboard'[u].total_score = leaderboard[u].total_score + req[w].score
                 /\ \A v \in Users \ {u} : leaderboard'[v] = leaderboard[v]
    ]_vars

\* a submission rolled back after its upsert, the other worker's commit in place
C3_Witness ==
  \E w \in Workers :
    /\ Returning(w, "submit")
    /\ resp[w] = [status |-> 500]
    /\ req[w].user_id \in Users
    /\ BagCardinality(game_sessions) = 1
    /\ \A u \in Users : rowlock[u] # w

\* C4: a submission naming a player without a users row answers 404 at once
\* and changes neither game_sessions, nor leaderboard, nor the cache; it never
\* enters the transaction steps.
C4_UnknownPlayerNotFound ==
  [][ \A w \in Workers :
        /\ (pc[w] = "idle" /\ req'[w].op = "submit" /\ req'[w].user_id \notin Users)
           => /\ pc'[w] = "ret"
              /\ resp'[w] = [status |-> 404]
              /\ UNCHANGED <<game_sessions, leaderboard, rowlock, redis>>
        /\ (req[w].op = "submit" /\ req[w].user_id \notin Users)
           => /\ pc[w] = "ret"
              /\ resp[w] = [status |-> 404]
              /\ pc'[w] # pc[w]
                 => /\ pc'[w] = "idle"
                    /\ UNCHANGED <<game_sessions, leaderboard, rowlock, redis>>
    ]_vars

\* the 404 is about to be returned while the cache holds entries and a row exists
C4_Witness ==
  \E w \in Workers :
    /\ Returning(w, "submit")
    /\ req[w].user_id \notin Users
    /\ resp[w] = [status |-> 404]
    /\ redis[TopKey] # NoEntry
    /\ \E u \in Users : leaderboard[u] # NoRow

\* C5: a read started after submit_score returned for player P answers with at
\* least the total that submission returned (totals only grow), whether it is
\* a rank lookup of P or the top list, and never fails to show P.
C5_ReadsReflectReturnedSubmission ==
  \A w \in Workers :
    /\ (Returning(w, "rank") /\ floor[w][req[w].user_id] > 0)
       => /\ resp[w].status = 200
          /\ resp[w].total_score >= floor[w][req[w].user_id]
    /\ (Returning(w, "top") /\ resp[w].status = 200)
       => \A u \in Users :
            floor[w][u] > 0
            => \E i \in DOMAIN resp[w].leaderboard :
                 /\ resp[w].leaderboard[i].user_id = u
                 /\ resp[w].leaderboard[i].total_score >= floor[w][u]

\* C6: a rank lookup answered while no submission is in flight carries the
\* rank 1 + number of rows with a strictly greater total than the player's
\* current total.
C6_RankFreshWhenQuiescent ==
  [][ \A w \in Workers :
        (NoSubmitInFlight /\ resp[w] = NoResp
           /\ req'[w].op = "rank" /\ resp'[w].status = 200)
        => resp'[w].rank
             = 1 + Ahead(leaderboard, leaderboard[req'[w].user_id].total_score)
    ]_vars

\* C7: with Redis unreachable the cache stays empty, no handler answers 500,
\* a 404 is only the unknown player of a submission or a rank lookup without
\* a row, and every read response is the one computed from leaderboard at the
\* step that builds it; a submission returns its transaction's total and rank.
SortedEntries(seq) ==
  \A i \in 1..(Len(seq) - 1) : seq[i].total_score >= seq[i + 1].total_score
FromStore(r, w) ==
  LET u == req'[w].user_id IN
  CASE req'[w].op = "rank" ->
         IF u \in Users /\ leaderboard[u] # NoRow
         THEN r = [status |-> 200, user_id |-> u,
                   total_score |-> leaderboard[u].total_score,
                   rank |-> 1 + Ahead(leaderboard, leaderboard[u].total_score)]
         ELSE r = [status |-> 404]
    [] req'[w].op = "top" ->
         /\ r.status = 200
         /\ r.updated_at = now
         /\ Len(r.leaderboard) = Cardinality({v \in Users : leaderboard[v] # NoRow})
         /\ SortedEntries(r.leaderboard)
         /\ \A i \in DOMAIN r.leaderboard :
              /\ r.leaderboard[i].rank = i
              /\ leaderboard[r.leaderboard[i].user_id] # NoRow
              /\ r.leaderboard[i].total_score
                   = leaderboard[r.leaderboard[i].user_id].total_score
         /\ \A i, j \in DOMAIN r.leaderboard :
              i # j => r.leaderboard[i].user_id # r.leaderboard[j].user_id
    [] OTHER ->
         IF u \in Users
         THEN /\ pc[w] = "s_inval"
              /\ r = [status |-> 200, user_id |-> u,
                      new_total_score |-> tx[w].new_total, new_rank |-> tx[w].new_rank]
         ELSE r = [status |-> 404]

C7_CacheDownStillCorrect ==
  /\ [](/\ \A k \in Keys : redis[k] = NoEntry
        /\ \A w \in Workers : resp[w].status \in {0, 200, 404})
  /\ [][ \A w \in Workers :
           (resp[w] = NoResp /\ resp'[w] # NoResp) => FromStore(resp'[w], w) ]_vars

\* all three operations have answered from the store with the client broken
C7_Witness ==
  /\ redis_client /\ ~redisUp
  /\ \E w \in Workers :
       /\ Returning(w, "top")
       /\ resp[w].status = 200
       /\ Len(resp[w].leaderboard) = 2
  /\ \E w \in Workers : Returning(w, "rank") /\ resp[w].status = 200

\* C8: a top list built while no submission is in flight is in non-increasing
\* order of total and has min(10, number of leaderboard rows) entries.
C8_TopSortedAndFull ==
  [][ \A w \in Workers :
        (NoSubmitInFlight /\ resp[w] = NoResp
           /\ req'[w].op = "top" /\ resp'[w].status = 200)
        => /\ SortedEntries(resp'[w].leaderboard)
           /\ Len(resp'[w].leaderboard)
                = (IF Cardinality({v \in Users : leaderboard[v] # NoRow}) < 10
                   THEN Cardinality({v \in Users : leaderboard[v] # NoRow}) ELSE 10)
    ]_vars

\* C9: when submissions do not overlap, the transaction's total is the
\* player's committed total before the call plus the score, its rank is 1 +
\* the number of rows strictly ahead of that total, and the response returns
\* both, equal to what the store then holds.
C9_SequentialSubmitResult ==
  \A w \in Workers :
    LET u == req[w].user_id IN
    /\ pc[w] = "s_commit"
       => /\ tx[w].new_total = leaderboard[u].total_score + req[w].score
          /\ tx[w].new_rank = 1 + Ahead(leaderboard, tx[w].new_total)
    /\ pc[w] = "s_inval"
       => /\ tx[w].new_total = leaderboard[u].total_score
          /\ tx[w].new_rank = 1 + Ahead(leaderboard, tx[w].new_total)
    /\ (Returning(w, "submit") /\ resp[w].status = 200)
       => /\ resp[w].user_id = u
          /\ resp[w].new_total_score = leaderboard[u].total_score
          /\ resp[w].new_total_score >= req[w].score
          /\ resp[w].new_rank = 1 + Ahead(leaderboard, resp[w].new_total_score)
          /\ (SessionsOf(u) = 1 => resp[w].new_total_score = req[w].score)

\* the claim's example, scaled: submit(1, 1) returned {1, 1}, then submit(2, 2)
\* returns {2, 1}
C9_Witness ==
  \E w \in Workers :
    /\ Returning(w, "submit")
    /\ req[w].user_id = 2 /\ req[w].score = 2
    /\ resp[w] = [status |-> 200, user_id |-> 2, new_total_score |-> 2, new_rank |-> 1]
    /\ leaderboard[1] = [total_score |-> 1, rank |-> 1]
    /\ acked[1] = 1

\* C10: a rank lookup that finds no leaderboard row answers 404 and leaves the
\* cache as it is; a rank key is only ever cached for a player with a row; so
\* a lookup started after the player's first submission returned answers 200
\* with the submitted total.
C10_NotFoundNotCached ==
  /\ [](/\ \A u \in UserIds :
             redis[RankKey(u)] # NoEntry
             => /\ u \in Users
                /\ leaderboard[u] # NoRow
                /\ redis[RankKey(u)].value.total_score >= 1
        /\ \A w \in Workers :
             (Returning(w, "rank") /\ floor[w][req[w].user_id] > 0)
             => /\ resp[w].status = 200
                /\ resp[w].total_score >= 1
                /\ SessionsOf(req[w].user_id) = 1
                   => resp[w].total_score = leaderboard[req[w].user_id].total_score)
  /\ [][ \A w \in Workers :
           (pc[w] = "r_query" /\ pc'[w] # "r_query")
           => IF req[w].user_id \in Users /\ leaderboard[req[w].user_id] # NoRow
              THEN resp'[w].status = 200
              ELSE /\ resp'[w] = [status |-> 404]
                   /\ pc'[w] = "ret"
                   /\ redis' = redis ]_vars

\* one lookup answers 404 for a player without a row while another, started
\* after player 1's first submission returned, answers with its total
C10_Witness ==
  \E w1, w2 \in Workers :
    /\ Returning(w1, "rank") /\ resp[w1] = [status |-> 404]
    /\ req[w1].user_id = 2
    /\ Returning(w2, "rank") /\ req[w2].user_id = 1
    /\ floor[w2][1] = 2
    /\ SessionsOf(1) = 1
    /\ resp[w2] = [status |-> 200, user_id |-> 1, total_score |-> 2, rank |-> 1]

\* C11: in every top-list response, computed or served from the cache, and in
\* every cached top list, the i-th entry carries position i (1..k for k
\* entries), whatever rank the rows store and also between equal totals.
C11_PositionsAreListOrder ==
  /\ \A w \in Workers :
       (req[w].op = "top" /\ resp[w].status = 200)
       => \A i \in DOMAIN resp[w].leaderboard : resp[w].leaderboard[i].rank = i
  /\ redis[TopKey] # NoEntry
     => \A i \in DOMAIN redis[TopKey].value.leaderboard :
          redis[TopKey].value.leaderboard[i].rank = i

\* two players tied on total 1, both storing rank 1, listed at positions 1 and 2
C11_Witness ==
  \E w \in Workers :
    /\ Returning(w, "top") /\ resp[w].status = 200
    /\ Len(resp[w].leaderboard) = 2
    /\ resp[w].leaderboard[1].total_score = resp[w].leaderboard[2].total_score
    /\ resp[w].leaderboard[2].rank = 2
    /\ leaderboard[resp[w].leaderboard[2].user_id].rank = 1

\* C12: a cached key is present only within 5 seconds of the cache_set that
\* wrote it; a response served from the cache is the value of a key that is
\* present and not yet expired; every cache_set stores the response with an
\* expiry 5 seconds ahead, also over a value already there; and the
\* invalidation of a submission removes both of its keys.
ProbedKey(w) == IF req'[w].op = "top" THEN TopKey ELSE RankKey(req'[w].user_id)
CachedBody(r) ==
  IF "leaderboard" \in DOMAIN r
  THEN [leaderboard |-> r.leaderboard, updated_at |-> [iso |-> r.updated_at]]
  ELSE [user_id |-> r.user_id, total_score |-> r.total_score, rank |-> r.rank]

C12_NeverServedPastTTL ==
  /\ [](\A k \in Keys :
          redis[k] # NoEntry => now < redis[k].expires /\ redis[k].expires <= now + 5)
  /\ [][ \A w \in Workers :
           /\ (pc[w] = "idle" /\ pc'[w] = "ret" /\ req'[w].op \in {"top", "rank"}
                 /\ resp'[w].status = 200)
              => /\ redis[ProbedKey(w)] # NoEntry
                 /\ now < redis[ProbedKey(w)].expires
                 /\ redis[ProbedKey(w)].value = CachedBody(resp'[w])
           /\ (pc[w] \in {"t_set", "r_set"} /\ pc'[w] = "ret")
              => redis'[ProbedKey(w)] = [value |-> CachedBody(resp[w]), expires |-> now + 5]
           /\ (pc[w] = "s_inval" /\ pc'[w] = "ret")
              => redis'[TopKey] = NoEntry /\ redis'[RankKey(req[w].user_id)] = NoEntry
     ]_vars

\* no submission was ever made, the top list was cached, five seconds passed,
\* and a read now misses the cache and goes to the store
C12_Witness ==
  \E w \in Workers :
    /\ pc[w] = "t_query"
    /\ now = 5
    /\ game_sessions = EmptyBag
    /\ redis[TopKey] = NoEntry

\* C13: updated_at of a top-list response is the clock reading at the step
\* that computed its list from the store: the query stamps the response with
\* the current time, cache_set stores that stamp with the list, and a response
\* served from the cache carries the list and the stamp of the cached value
\* (so every response served from one cached value has the same stamp), never
\* a later one.
C13_StampIsComputationTime ==
  /\ [](/\ \A w \in Workers :
             (req[w].op = "top" /\ resp[w].status = 200) => resp[w].updated_at <= now
        /\ redis[TopKey] # NoEntry
           => redis[TopKey].value.updated_at.iso + 5 <= redis[TopKey].expires)
  /\ [][ \A w \in Workers :
           /\ (pc[w] = "t_query" /\ pc'[w] = "t_set") => resp'[w].updated_at = now
           /\ (pc[w] = "t_set" /\ pc'[w] = "ret" /\ resp'[w].status = 200)
              => /\ redis'[TopKey].value.updated_at.iso = resp[w].updated_at
                 /\ redis'[TopKey].value.leaderboard = resp[w].leaderboard
                 /\ resp'[w] = resp[w]
           /\ (pc[w] = "idle" /\ pc'[w] = "ret" /\ req'[w].op = "top"
                 /\ resp'[w].status = 200)
              => /\ resp'[w].updated_at = redis[TopKey].value.updated_at.iso
                 /\ resp'[w].leaderboard = redis[TopKey].value.leaderboard
     ]_vars

\* two responses with the list and the stamp of the value cached at second 0,
\* held at second 2
C13_Witness ==
  \E w1, w2 \in Workers :
    /\ w1 # w2
    /\ Returning(w1, "top") /\ Returning(w2, "top")
    /\ now = 2
    /\ redis[TopKey] # NoEntry /\ redis[TopKey].expires = 5
    /\ resp[w1].updated_at = 0
    /\ resp[w1] = resp[w2]
    /\ Len(resp[w1].leaderboard) = 1
    /\ redis[TopKey].value = CachedBody(resp[w1])

\* C14: a step of submit_score removes keys from the cache only as the step
\* that follows its commit, when its session and its total are in the tables,
\* and that step removes both leaderboard:top10 and rank:<player> and nothing
\* else; the validation step (404 included), the writes, the commit and the
\* rollback leave the cache as it is.
C14_InvalidateOnlyAfterCommit ==
  [][ \A w \in Workers :
        (req'[w].op = "submit" /\ pc'[w] # pc[w])
        => IF pc[w] = "s_inval"
           THEN LET u == req[w].user_id IN
                /\ redis' = [k \in Keys |->
                               IF k \in {TopKey, RankKey(u)} THEN NoEntry ELSE redis[k]]
                /\ CopiesIn([user_id |-> u, score |-> req[w].score], game_sessions) >= 1
                /\ leaderboard[u].total_score >= tx[w].new_total
                /\ resp'[w].status = 200
           ELSE redis' = redis
    ]_vars

\* player 1's submission has committed and returned with both of its keys
\* gone, while player 2's rank key, cached before it, is still there
C14_Witness ==
  \E w \in Workers :
    /\ Returning(w, "submit") /\ resp[w].status = 200 /\ req[w].user_id = 1
    /\ leaderboard[1].total_score = resp[w].new_total_score
    /\ redis[TopKey] = NoEntry /\ redis[RankKey(1)] = NoEntry
    /\ redis[RankKey(2)] # NoEntry

\* C15: with Redis going down and coming back, a read request answered from
\* the cache (so with Redis reachable) shows for every player at least the
\* total that the player's submissions had returned when the read began.
C15_FreshAfterCacheOutage ==
  [][ \A w \in Workers :
        (pc[w] = "idle" /\ pc'[w] = "ret" /\ resp'[w].status = 200)
        => /\ req'[w].op = "rank"
              => resp'[w].total_score >= acked[req'[w].user_id]
           /\ req'[w].op = "top"
              => \A u \in Users :
                   acked[u] > 0
                   => \E i \in DOMAIN resp'[w].leaderboard :
                        /\ resp'[w].leaderboard[i].user_id = u
                        /\ resp'[w].leaderboard[i].total_score >= acked[u]
    ]_vars

\* C16: the rank a commit stores on the submitting player's row is, in the
\* committed state it produces, 1 + the number of rows with a strictly
\* greater total than that player's new total.
C16_StoredRankRightAtCommit ==
  [][ \A w \in Workers :
        (pc[w] = "s_commit" /\ pc'[w] = "s_inval")
        => leaderboard'[req[w].user_id].rank
             = 1 + Ahead(leaderboard', leaderboard'[req[w].user_id].total_score)
    ]_vars

\* C17: leaderboard never holds more than one committed row of a user: a
\* user has one row exactly when a submission of that user has committed; the
\* commit of a user's first submission creates the row with total = score,
\* and every later commit adds its score to that row without adding a row.
C17_OneRowPerPlayer ==
  /\ [](\A u \in Users :
          /\ lb_rows[u] <= 1
          /\ lb_rows[u] = 1 <=> leaderboard[u] # NoRow
          /\ lb_rows[u] = 1 <=> SessionsOf(u) >= 1)
  /\ [][ \A w \in Workers :
           (pc[w] = "s_commit" /\ pc'[w] = "s_inval")
           => LET u == req[w].user_id IN
              IF lb_rows[u] = 0
              THEN lb_rows'[u] = 1 /\ leaderboard'[u].total_score = req[w].score
              ELSE /\ lb_rows'[u] = lb_rows[u]
                   /\ leaderboard'[u].total_score
                        = leaderboard[u].total_score + req[w].score
     ]_vars

\* two first-ever submissions of player 1 overlap: one has run its upsert and
\* holds the row, the other waits at its upsert, and no row is committed yet
C17_Witness ==
  \E w1, w2 \in Workers :
    /\ pc[w1] = "s_commit" /\ pc[w2] = "s_write"
    /\ req[w1].user_id = 1 /\ req[w2].user_id = 1
    /\ rowlock[1] = w1
    /\ lb_rows[1] = 0 /\ leaderboard[1] = NoRow

\* C18: no step of get_leaderboard or get_player_rank changes game_sessions,
\* leaderboard (totals and stored ranks) or a row lock; game_sessions changes
\* only by the commit of a submission, which adds exactly one row, that
\* submission's (user_id, score), and leaves every earlier row in place.
C18_ReadsAreReadOnly ==
  [][ /\ \A w \in Workers :
           (pc'[w] # pc[w] /\ (req[w].op \in {"top", "rank"} \/ req'[w].op \in {"top", "rank"}))
           => /\ game_sessions' = game_sessions
              /\ leaderboard' = leaderboard
              /\ lb_rows' = lb_rows
              /\ rowlock' = rowlock
      /\ game_sessions' # game_sessions
         => \E w \in Workers :
              /\ pc[w] = "s_commit" /\ pc'[w] = "s_inval"
              /\ game_sessions'
                   = game_sessions
                       (+) SetToBag({[user_id |-> req[w].user_id, score |-> req[w].score]})
              /\ BagCardinality(game_sessions') = BagCardinality(game_sessions) + 1
      /\ \A w \in Workers :
           (pc[w] = "s_commit" /\ pc'[w] = "s_inval")
           => BagCardinality(game_sessions') = BagCardinality(game_sessions) + 1
    ]_vars

\* both reads have answered from the store after two submissions committed,
\* and the tied rows still store the ranks their submissions gave them
C18_Witness ==
  \E w1, w2 \in Workers :
    /\ Returning(w1, "top") /\ resp[w1].status = 200 /\ Len(resp[w1].leaderboard) = 2
    /\ Returning(w2, "rank") /\ resp[w2].status = 200
    /\ BagCardinality(game_sessions) = 2
    /\ leaderboard[1] = [total_score |-> 1, rank |-> 1]
    /\ leaderboard[2] = [total_score |-> 1, rank |-> 1]

\* C19: while no submission is between its validation and its return, every
\* response a read computes from the store is the one the store gives
\* (totals, computed ranks, the top list in store order with positions 1..k);
\* and if from some point on no submission is in that window, then from some
\* later point on every cached value and every read response in hand is the
\* one the store gives: no stale value stays.
MatchesStore(op, u, r) ==
  IF op = "rank"
  THEN /\ u \in Users /\ leaderboard[u] # NoRow
       /\ r.user_id = u
       /\ r.total_score = leaderboard[u].total_score
       /\ r.rank = 1 + Ahead(leaderboard, leaderboard[u].total_score)
  ELSE /\ Len(r.leaderboard) = Cardinality({v \in Users : leaderboard[v] # NoRow})
       /\ SortedEntries(r.leaderboard)
       /\ \A i \in DOMAIN r.leaderboard :
            /\ r.leaderboard[i].rank = i
            /\ leaderboard[r.leaderboard[i].user_id] # NoRow
            /\ r.leaderboard[i].total_score
                 = leaderboard[r.leaderboard[i].user_id].total_score
       /\ \A i, j \in DOMAIN r.leaderboard :
            i # j => r.leaderboard[i].user_id # r.leaderboard[j].user_id
SubmissionsQuiet == \A w \in Workers : pc[w] \notin {"s_write", "s_commit", "s_inval"}
AllFresh ==
  /\ redis[TopKey] # NoEntry => MatchesStore("top", 0, redis[TopKey].value)
  /\ \A u \in UserIds :
       redis[RankKey(u)] # NoEntry => MatchesStore("rank", u, redis[RankKey(u)].value)
  /\ \A w \in Workers :
       (req[w].op \in {"top", "rank"} /\ resp[w].status = 200)
       => MatchesStore(req[w].op, req[w].user_id, resp[w])

C19_EventuallyFresh ==
  /\ [][ \A w \in Workers :
           (SubmissionsQuiet /\ pc[w] \in {"t_query", "r_query"}
              /\ pc'[w] # pc[w] /\ resp'[w].status = 200)
           => MatchesStore(req[w].op, req[w].user_id, resp'[w]) ]_vars
  /\ (<>[]SubmissionsQuiet) => <>[]AllFresh

\* submissions are over and the cache still holds player 1's rank computed
\* before player 2 overtook
C19_Witness ==
  /\ AllIdle
  /\ BagCardinality(game_sessions) = MaxSessions
  /\ redis[RankKey(1)] # NoEntry
  /\ redis[RankKey(1)].value.rank = 1
  /\ leaderboard[2].total_score > leaderboard[1].total_score

\* C20: a submission past validation always reaches its return, with 200
\* after a commit or 500 after a rollback (404 returns at validation); the
\* only step of it that can be blocked is the upsert, and only while another
\* submission of the same player holds that player's row; the holder of a
\* row lock is never blocked, so no set of submissions waits in a cycle.
C20_SubmitTerminates ==
  /\ [](\A w \in Workers :
          /\ Returning(w, "submit") => resp[w].status \in {200, 404, 500}
          /\ pc[w] = "s_commit" => ENABLED SubmitCommit(w)
          /\ pc[w] = "s_inval" => ENABLED SubmitInvalidate(w)
          /\ pc[w] = "ret" => ENABLED Return(w)
          /\ (pc[w] = "s_write" /\ ~ENABLED SubmitWrite(w))
             => \E w2 \in Workers \ {w} :
                  /\ pc[w2] = "s_commit"
                  /\ req[w2].user_id = req[w].user_id
                  /\ rowlock[req[w].user_id] = w2)
  /\ \A w \in Workers :
       (pc[w] \in {"s_write", "s_commit", "s_inval"})
         ~> (Returning(w, "submit") /\ resp[w].status \in {200, 500})

\* a submission of player 2 is blocked at its upsert by another submission of
\* player 2 that holds the row and can commit
C20_Witness ==
  \E w1, w2 \in Workers :
    /\ pc[w1] = "s_commit" /\ pc[w2] = "s_write"
    /\ req[w1].user_id = 2 /\ req[w2].user_id = 2
    /\ ~ENABLED SubmitWrite(w2)
    /\ ENABLED SubmitCommit(w1)

\* C21: the rank 0 the upsert writes on a new row is never committed and
\* never seen: every committed leaderboard row stores a rank >= 1, every
\* submission about to commit or returning carries a rank >= 1, and every
\* rank in a read response or in the cache is >= 1.
C21_PlaceholderNeverCommitted ==
  /\ \A u \in Users : leaderboard[u] # NoRow => leaderboard[u].rank >= 1
  /\ \A w \in Workers :
       /\ pc[w] \in {"s_commit", "s_inval"} => tx[w].new_rank >= 1
       /\ (Returning(w, "submit") /\ resp[w].status = 200) => resp[w].new_rank >= 1
       /\ (req[w].op = "rank" /\ resp[w].status = 200) => resp[w].rank >= 1
       /\ (req[w].op = "top" /\ resp[w].status = 200)
          => \A i \in DOMAIN resp[w].leaderboard : resp[w].leaderboard[i].rank >= 1
  /\ \A u \in UserIds : redis[RankKey(u)] # NoEntry => redis[RankKey(u)].value.rank >= 1

\* player 2's first submission created the row and committed it with the
\* computed rank 2, behind player 1
C21_Witness ==
  \E w \in Workers :
    /\ Returning(w, "submit") /\ resp[w].status = 200 /\ req[w].user_id = 2
    /\ SessionsOf(2) = 1 /\ lb_rows[2] = 1
    /\ leaderboard[2].rank = 2
    /\ resp[w].new_rank = 2

=============================================================================
